---------------------------- MODULE Spec2Model ----------------------------
(***************************************************************************)
(* TruthMark SDK: the payload pipeline of TruthMarkEmbedder.embed and the  *)
(* blind length search of TruthMarkDetector.detect.                        *)
(*                                                                         *)
(* The carrier is modelled at byte granularity: image.data[i] is the byte  *)
(* carried by the embedding sites 8(i-1)+1 .. 8i of the fixed site order,  *)
(* so the first 8*S sites hold the first S bytes.  Ciphertext and tag      *)
(* bytes are terms of an ideal authenticated cipher (the tag is a random   *)
(* oracle over (key, ciphertext), kept in macTable); plaintext, ECC and    *)
(* JSON bytes are integers 0..255.                                         *)
(***************************************************************************)
EXTENDS Integers, Sequences, FiniteSets, TLC

(***************************************************************************)
(* Bounds of the model.                                                    *)
(***************************************************************************)
NumKeys == 2
MaxFlips == 1
MaxPsnrDev == 2
MaxBlockSide == 3
MaxSites == 4
MaxCoef == 1
NumImages == 2

(***************************************************************************)
(* Program constants.                                                      *)
(***************************************************************************)
FineStart == 100
FineStop == 500
FineStep == 4
MidStop == 1000
MidStep == 20
CoarseStop == 2000
CoarseStep == 50
BitsPerByte == 8
BlockSize == 8
CoefPerBlock == 15
TagLen == 32
EccSymbols == 32
EccBlock == 255

Min(a, b) == IF a < b THEN a ELSE b

(***************************************************************************)
(* JSON values.  A Python dict is a sequence of key/value pairs in         *)
(* insertion order; strings are sequences of ASCII codes without quote,    *)
(* backslash or control characters.                                        *)
(***************************************************************************)
JNull == [t |-> "n", s |-> <<>>, o |-> <<>>]
JStr(chars) == [t |-> "s", s |-> chars, o |-> <<>>]
JBool(b) == [t |-> "b", s |-> IF b THEN <<1>> ELSE <<0>>, o |-> <<>>]
JObj(pairs) == [t |-> "o", s |-> <<>>, o |-> pairs]

KeyCopyright == <<99, 111, 112, 121, 114, 105, 103, 104, 116>>
KeyAiCompliance == <<97, 105, 95, 99, 111, 109, 112, 108, 105, 97, 110, 99, 101>>
KeySynthetic ==
    <<115, 121, 110, 116, 104, 101, 116, 105, 99, 95, 99, 111, 110, 116, 101, 110, 116>>
TextTrue == <<116, 114, 117, 101>>
TextFalse == <<102, 97, 108, 115, 101>>
TextYes == <<121, 101, 115>>

\* A text of n lower-case letters.
Text(n) == [i \in 1..n |-> 97 + (i % 26)]

HasKey(pairs, k) == \E i \in DOMAIN pairs : pairs[i].k = k

\* dict.get(k, default)
DictGet(pairs, k, default) ==
    IF HasKey(pairs, k)
    THEN pairs[CHOOSE i \in DOMAIN pairs : pairs[i].k = k].v
    ELSE default

\* d[k] = v : an existing key keeps its place, a new key goes last.
DictSet(pairs, k, v) ==
    IF HasKey(pairs, k)
    THEN [i \in DOMAIN pairs |-> IF pairs[i].k = k THEN [k |-> k, v |-> v] ELSE pairs[i]]
    ELSE Append(pairs, [k |-> k, v |-> v])

RECURSIVE DumpsValue(_), DumpsPairs(_, _)
\* json.dumps(value, separators=(',', ':'))
DumpsValue(v) ==
    CASE v.t = "s" -> <<34>> \o v.s \o <<34>>
      [] v.t = "b" -> IF v.s = <<1>> THEN TextTrue ELSE TextFalse
      [] v.t = "o" -> <<123>> \o DumpsPairs(v.o, 1) \o <<125>>
      [] OTHER -> <<110, 117, 108, 108>>
DumpsPairs(ps, i) ==
    IF i > Len(ps) THEN <<>>
    ELSE (IF i > 1 THEN <<44>> ELSE <<>>)
         \o <<34>> \o ps[i].k \o <<34, 58>> \o DumpsValue(ps[i].v)
         \o DumpsPairs(ps, i + 1)

IsWs(c) == c \in {32, 9, 10, 13}

\* The least element of a non-empty set of integers.
Least(S) == CHOOSE i \in S : \A j \in S : i <= j

\* The first position from p on that holds no whitespace (Len(b)+1: none).
SkipWs(b, p) ==
    LET solid == {i \in p..Len(b) : ~IsWs(b[i])} IN
    IF solid = {} THEN (IF p > Len(b) THEN p ELSE Len(b) + 1) ELSE Least(solid)

StartsWith(b, p, word) ==
    /\ p + Len(word) - 1 <= Len(b)
    /\ \A i \in 1..Len(word) : b[p + i - 1] = word[i]

ParseFail == [ok |-> FALSE, v |-> JNull, p |-> 0]

\* Position of the closing quote of a string whose first character is at p
\* (0: unterminated, or a character this model does not decode comes first).
StringEnd(b, p) ==
    LET stops == {i \in p..Len(b) :
                     b[i] = 34 \/ b[i] < 32 \/ b[i] = 92 \/ b[i] > 127}
    IN
    IF stops = {} THEN 0
    ELSE IF b[Least(stops)] = 34 THEN Least(stops) ELSE 0

RECURSIVE ParseValue(_, _), ParsePairs(_, _, _)
\* The JSON value starting at p (leading whitespace skipped by the caller).
ParseValue(b, p) ==
    IF p > Len(b) THEN ParseFail
    ELSE IF b[p] = 34 THEN
        LET e == StringEnd(b, p + 1) IN
        IF e = 0 THEN ParseFail
        ELSE [ok |-> TRUE, v |-> JStr(SubSeq(b, p + 1, e - 1)), p |-> e + 1]
    ELSE IF StartsWith(b, p, TextTrue) THEN
        [ok |-> TRUE, v |-> JBool(TRUE), p |-> p + Len(TextTrue)]
    ELSE IF StartsWith(b, p, TextFalse) THEN
        [ok |-> TRUE, v |-> JBool(FALSE), p |-> p + Len(TextFalse)]
    ELSE IF b[p] = 123 THEN
        LET q == SkipWs(b, p + 1) IN
        IF q <= Len(b) /\ b[q] = 125
        THEN [ok |-> TRUE, v |-> JObj(<<>>), p |-> q + 1]
        ELSE ParsePairs(b, q, <<>>)
    ELSE ParseFail
\* The members of an object from p on: "key" : value ( , | } ).
ParsePairs(b, p, acc) ==
    IF p > Len(b) \/ b[p] # 34 THEN ParseFail
    ELSE
        LET e == StringEnd(b, p + 1) IN
        IF e = 0 THEN ParseFail
        ELSE
            LET c == SkipWs(b, e + 1) IN
            IF c > Len(b) \/ b[c] # 58 THEN ParseFail
            ELSE
                LET r == ParseValue(b, SkipWs(b, c + 1)) IN
                IF ~r.ok THEN ParseFail
                ELSE
                    LET n == SkipWs(b, r.p)
                        acc2 == DictSet(acc, SubSeq(b, p + 1, e - 1), r.v)
                    IN
                    IF n > Len(b) THEN ParseFail
                    ELSE IF b[n] = 125 THEN [ok |-> TRUE, v |-> JObj(acc2), p |-> n + 1]
                    ELSE IF b[n] = 44 THEN ParsePairs(b, SkipWs(b, n + 1), acc2)
                    ELSE ParseFail

\* bytes.decode('utf-8') of the bytes this model produces: ASCII only.
Utf8Ok(b) == \A i \in DOMAIN b : b[i] < 128

\* json.loads(bytes.decode('utf-8')): one value, then only whitespace.
Loads(b) ==
    IF ~Utf8Ok(b) THEN ParseFail
    ELSE
        LET r == ParseValue(b, SkipWs(b, 1)) IN
        IF r.ok /\ SkipWs(b, r.p) > Len(b) THEN r ELSE ParseFail

(***************************************************************************)
(* ECC: Reed-Solomon with EccSymbols parity symbols per block of at most   *)
(* EccBlock symbols (the last block is shortened, not padded on the wire). *)
(* The parity symbols are a checksum of the block's data; a block decodes  *)
(* while at most EccSymbols/2 of its symbols disagree with it.             *)
(***************************************************************************)
RECURSIVE SumRange(_, _, _)
\* x[lo] + ... + x[hi], by halving.
SumRange(x, lo, hi) ==
    IF lo > hi THEN 0
    ELSE IF lo = hi THEN x[lo]
    ELSE LET mid == (lo + hi) \div 2 IN SumRange(x, lo, mid) + SumRange(x, mid + 1, hi)

SumSeq(x) == SumRange(x, 1, Len(x))

EccData == EccBlock - EccSymbols

Parity(chunk) ==
    LET s == SumSeq(chunk) IN
    [j \in 1..EccSymbols |-> (s + j * (Len(chunk) + 1) + 128) % 256]

RECURSIVE EccEncode(_)
\* ErrorCorrection.encode
EccEncode(x) ==
    IF x = <<>> THEN <<>>
    ELSE
        LET n == Min(Len(x), EccData)
            c == SubSeq(x, 1, n)
        IN c \o Parity(c) \o EccEncode(SubSeq(x, n + 1, Len(x)))

EccFail == [ok |-> FALSE, data |-> <<>>, errors |-> 0]

RECURSIVE EccDecode(_)
\* ErrorCorrection.decode: (data, errors_corrected), or EccUnrecoverable.
EccDecode(y) ==
    IF y = <<>> THEN [ok |-> TRUE, data |-> <<>>, errors |-> 0]
    ELSE
        LET n == Min(Len(y), EccBlock) IN
        IF n <= EccSymbols THEN EccFail
        ELSE
            LET d == SubSeq(y, 1, n - EccSymbols)
                par == SubSeq(y, n - EccSymbols + 1, n)
                good == Parity(d)
                bad == Cardinality({j \in 1..EccSymbols : par[j] # good[j]})
                rest == EccDecode(SubSeq(y, n + 1, Len(y)))
            IN
            IF 2 * bad > EccSymbols \/ ~rest.ok THEN EccFail
            ELSE [ok |-> TRUE, data |-> d \o rest.data, errors |-> bad + rest.errors]

(***************************************************************************)
(* Crypto: an ideal authenticated cipher.  A ciphertext byte is the term   *)
(* Enc(key, position, plaintext byte); the tag of (key, ciphertext) is     *)
(* TagLen bytes naming the entry of the random-oracle table that holds     *)
(* (key, ciphertext).  flip is the set of bit positions of the byte that   *)
(* were inverted on the carrier.                                           *)
(***************************************************************************)
EncByte(k, i, p) == [kind |-> "enc", key |-> k, idx |-> i, val |-> p, flip |-> {}]
TagByte(id, j) == [kind |-> "tag", key |-> 0, idx |-> j, val |-> id, flip |-> {}]
CoverByte(i) == [kind |-> "cover", key |-> 0, idx |-> i, val |-> 0, flip |-> {}]

\* The oracle's entry for (k, ct): the existing one, or the next free one.
MacId(table, k, ct) ==
    IF \E i \in DOMAIN table : table[i] = [key |-> k, msg |-> ct]
    THEN CHOOSE i \in DOMAIN table : table[i] = [key |-> k, msg |-> ct]
    ELSE Len(table) + 1

\* CryptoEngine.encrypt: (ciphertext, 32-byte tag), and the oracle after it.
Encrypt(table, k, plain) ==
    LET ct == [i \in 1..Len(plain) |-> EncByte(k, i, plain[i])]
        id == MacId(table, k, ct)
    IN [ct |-> ct,
        tag |-> [j \in 1..TagLen |-> TagByte(id, j)],
        table |-> IF id > Len(table)
                  THEN Append(table, [key |-> k, msg |-> ct])
                  ELSE table]

\* The tag verifies iff it is, byte for byte, the oracle's tag of (k, ct).
Verify(table, k, ct, tag) ==
    /\ Len(tag) = TagLen
    /\ \A j \in 1..TagLen :
          /\ tag[j].kind = "tag"
          /\ tag[j].idx = j
          /\ tag[j].flip = {}
          /\ tag[j].val = tag[1].val
    /\ tag[1].val \in DOMAIN table
    /\ table[tag[1].val].key = k
    /\ table[tag[1].val].msg = ct

DecByte(k, i, c) ==
    IF c.kind = "enc" /\ c.key = k /\ c.idx = i /\ c.flip = {}
    THEN c.val
    ELSE (c.val + c.idx + 101) % 256

\* CryptoEngine.decrypt: the plaintext, or CryptoAuthFail.
Decrypt(table, k, ct, tag) ==
    IF Verify(table, k, ct, tag)
    THEN [ok |-> TRUE, data |-> [i \in 1..Len(ct) |-> DecByte(k, i, ct[i])]]
    ELSE [ok |-> FALSE, data |-> <<>>]

(***************************************************************************)
(* The run: constructor and call arguments.  0 is the absent key (None or  *)
(* the empty string); keys 1..NumKeys are well-formed keys.                *)
(***************************************************************************)
Keys == 1..NumKeys
OptKeys == 0..NumKeys
Modes == {"standard", "ai_compliance"}
Shapes == {"str", "dict_ai"}
FlipSpots == {"ct_first", "ct_last", "tag_first", "cover"}
FlipBits == {1, BitsPerByte}
FlipChoices == {[spot |-> sp, bit |-> b] : sp \in FlipSpots, b \in FlipBits}
FlipSeqs == UNION {[1..m -> FlipChoices] : m \in 1..MaxFlips}

BaseRun ==
    [ekey |-> 1, eEcc |-> TRUE, aiAct |-> FALSE, n |-> 20, shape |-> "str",
     dims |-> <<64, 64>>, flips |-> <<>>, selfKey |-> 1, argKey |-> 0,
     dEcc |-> TRUE, mode |-> "standard", input |-> "array",
     adaptive |-> FALSE, strength |-> 20, target |-> 80, psnr |-> <<>>,
     fault |-> "none"]

\* Every key pairing, over sizes on, off and below the ladder.
KeyRuns ==
    {[BaseRun EXCEPT !.ekey = k, !.selfKey = sk, !.argKey = ak, !.n = n, !.dims = d] :
        k \in Keys, sk \in OptKeys, ak \in OptKeys,
        n \in {4, 20, 21, 24, 52}, d \in {<<64, 64>>, <<72, 64>>}}

\* Every pairing of the two ECC settings, modes and payload shapes.
ConfigRuns ==
    {[BaseRun EXCEPT !.eEcc = ee, !.dEcc = de, !.mode = m, !.shape = sh, !.n = n,
                     !.aiAct = act, !.dims = <<80, 80>>] :
        ee \in BOOLEAN, de \in BOOLEAN, m \in Modes, sh \in Shapes,
        n \in {3, 20, 30, 52}, act \in BOOLEAN}

\* Bit flips on the carrier between embed and detect.
TamperRuns ==
    {[BaseRun EXCEPT !.flips = f, !.n = n] : f \in FlipSeqs, n \in {20, 24}}

\* Inputs detect cannot use as an RGB image.
InputRuns ==
    {[BaseRun EXCEPT !.input = i, !.argKey = ak, !.selfKey = sk] :
        i \in {"gray", "bad_path"}, ak \in OptKeys, sk \in {0, 1}}

\* Images around the capacity of the smallest ladder candidate (800 bits):
\* 16, 49, 49 and 54 full blocks.
SmallRuns ==
    {[BaseRun EXCEPT !.dims = d, !.input = i] :
        d \in {<<32, 32>>, <<56, 56>>, <<63, 63>>, <<48, 72>>},
        i \in {"array", "gray"}}

\* PSNR readings of the five strength trials, in half dB, falling as the
\* strength rises.
PsnrCurves ==
    {<<81, 80, 78, 77, 76>>, <<84, 82, 80, 78, 76>>, <<86, 85, 84, 83, 82>>,
     <<78, 77, 76, 75, 74>>}

\* Adaptive strength, on payloads that fit the image and that do not.
StrengthRuns ==
    {[BaseRun EXCEPT !.adaptive = TRUE, !.strength = b, !.psnr = c, !.n = n] :
        b \in {20, 40}, c \in PsnrCurves, n \in {20, 52}}

\* The step of embed() that raises: opening the input, the ECC encoder,
\* the cipher, or the save.
EmbedFaults == {"open", "ecc", "encrypt", "save"}

FaultRuns ==
    {[BaseRun EXCEPT !.fault = f, !.eEcc = ee] : f \in EmbedFaults, ee \in BOOLEAN}

Runs ==
    KeyRuns \cup ConfigRuns \cup TamperRuns \cup InputRuns \cup SmallRuns
        \cup StrengthRuns \cup FaultRuns

VARIABLES
    sc,         \* the run's arguments
    pc,         \* "ready", "embedded", "loop", "returned"
    embedRes,   \* EmbedResult of embed()
    image,      \* the image handed to detect(); saved: written to output_path
    macTable,   \* the cipher's random oracle: (key, ciphertext) pairs tagged so far
    nflips,     \* flips applied to the carrier so far
    crypto,     \* key of the crypto engine detect() uses (0: none)
    idx,        \* position of the loop in embedded_sizes_to_try
    tried,      \* the loop's iterations so far: candidate size and outcome
    result      \* what detect() returned

vars == <<sc, pc, embedRes, image, macTable, nflips, crypto, idx, tried, result>>

(***************************************************************************)
(* TruthMarkEmbedder.embed                                                 *)
(***************************************************************************)
\* copyright_info as the caller passes it: a str, or a dict.
CallerInfo(run) ==
    IF run.shape = "str" THEN JStr(Text(run.n))
    ELSE JObj(<<[k |-> KeyCopyright, v |-> JStr(Text(run.n))],
                [k |-> KeyAiCompliance, v |-> JStr(TextYes)]>>)

KeyEuAiAct == <<101, 117, 95, 97, 105, 95, 97, 99, 116>>
KeyAiGenerated == <<97, 105, 95, 103, 101, 110, 101, 114, 97, 116, 101, 100>>

\* payload_dict, or the exception the compliance step raises on a
\* non-dict ai_compliance entry.
BuildPayload(info, aiAct) ==
    LET base == IF info.t = "o" THEN info.o
                ELSE <<[k |-> KeyCopyright, v |-> info]>>
    IN
    IF ~aiAct THEN [ok |-> TRUE, dict |-> base]
    ELSE
        LET cur == DictGet(base, KeyAiCompliance, JObj(<<>>)) IN
        IF cur.t # "o" THEN [ok |-> FALSE, dict |-> <<>>]
        ELSE
            LET c1 == DictSet(cur.o, KeyEuAiAct, JBool(TRUE))
                c2 == DictSet(c1, KeySynthetic,
                              DictGet(base, KeyAiGenerated, JBool(FALSE)))
            IN [ok |-> TRUE, dict |-> DictSet(base, KeyAiCompliance, JObj(c2))]

\* payload_bytes after the optional ECC step.
EncodePayload(dict, useEcc) ==
    LET js == DumpsValue(JObj(dict)) IN
    IF useEcc THEN EccEncode(js) ELSE js

BitsNeeded(size) == size * BitsPerByte

\* A capacity that counts the partial blocks at the border as well.
MaxBitsCeil(h, w) ==
    ((h + BlockSize - 1) \div BlockSize) * ((w + BlockSize - 1) \div BlockSize)
        * CoefPerBlock

\* max_bits: 15 mid-frequency coefficients per full 8x8 block.
MaxBits(h, w) == (h \div BlockSize) * (w \div BlockSize) * CoefPerBlock

\* WatermarkEmbedder.embed: the payload's bytes on the first sites of the
\* site order, or PayloadTooLarge.
CoreEmbed(h, w, payload) ==
    IF BitsNeeded(Len(payload)) > MaxBits(h, w)
    THEN [ok |-> FALSE, data |-> <<>>]
    ELSE [ok |-> TRUE, data |-> payload]

Abs(x) == IF x < 0 THEN 0 - x ELSE x

\* tolerance = 0.5 dB, in half dB.
Tolerance == 1

\* float('inf')
Infinity == 1000000

\* strengths_to_try: 0.7, 0.85, 1.0, 1.15 and 1.3 times config.strength.
StrengthFactors == <<70, 85, 100, 115, 130>>
StrengthsToTry(base) ==
    [i \in DOMAIN StrengthFactors |-> (base * StrengthFactors[i]) \div 100]

\* A search that never returns early.
WithinToleranceNever(diff) == FALSE

\* if psnr_diff <= tolerance: return strength
WithinTolerance(diff) == diff <= Tolerance

\* The for loop over strengths_to_try from entry i on. meas[i] is <<psnr>>
\* when the trial embed at entry i succeeds and <<>> when it raises.
RECURSIVE StrengthLoop(_, _, _, _, _, _)
StrengthLoop(strengths, meas, target, i, best_strength, best_psnr_diff) ==
    IF i > Len(strengths) THEN best_strength
    ELSE IF meas[i] = <<>>
    THEN StrengthLoop(strengths, meas, target, i + 1, best_strength, best_psnr_diff)
    ELSE
        LET psnr_diff == Abs(meas[i][1] - target)
            better == psnr_diff < best_psnr_diff
        IN
        IF WithinTolerance(psnr_diff) THEN strengths[i]
        ELSE StrengthLoop(strengths, meas, target, i + 1,
                          IF better THEN strengths[i] ELSE best_strength,
                          IF better THEN psnr_diff ELSE best_psnr_diff)

\* _find_optimal_strength
FindOptimalStrength(base, meas, target) ==
    StrengthLoop(StrengthsToTry(base), meas, target, 1, base, Infinity)

\* What the five trial embeds report: a payload over the capacity makes
\* each of them raise.
TrialReadings(fits, psnr) ==
    [i \in DOMAIN StrengthFactors |-> IF fits THEN <<psnr[i]>> ELSE <<>>]

\* A handler that drops the exception's text.
EmbedFailureNoMessage(key, msg) ==
    [success |-> FALSE, key |-> key, payload |-> <<>>, size |-> 0, error |-> "",
     strength |-> 0, output_path |-> <<>>, image |-> FALSE]

\* except Exception as e: EmbedResult(success=False, key=self.key,
\* error_message=str(e)); output_path, payload and image keep None.
EmbedFailure(key, msg) ==
    [success |-> FALSE, key |-> key, payload |-> <<>>, size |-> 0, error |-> msg,
     strength |-> 0, output_path |-> <<>>, image |-> FALSE]

\* An embed whose final core failure is swallowed like a trial failure.
EmbedReturnLenient(key, dict, size, strength, coreOk) ==
    [success |-> TRUE, key |-> key, payload |-> <<JObj(dict)>>,
     size |-> size, error |-> "", strength |-> strength,
     output_path |-> <<"output_path">>, image |-> TRUE]

\* EmbedResult(success=True, ...) after the core embed, or the result the
\* outer handler builds from the exception the core raised.
EmbedReturn(key, dict, size, strength, coreOk) ==
    IF coreOk
    THEN [success |-> TRUE, key |-> key, payload |-> <<JObj(dict)>>,
          size |-> size, error |-> "", strength |-> strength,
          output_path |-> <<"output_path">>, image |-> TRUE]
    ELSE EmbedFailure(key, "PayloadTooLarge")

Embed ==
    /\ pc = "ready"
    /\ LET bp == BuildPayload(CallerInfo(sc), sc.aiAct)
           cover == [h |-> sc.dims[1], w |-> sc.dims[2], ch |-> 3, data |-> <<>>,
                     saved |-> FALSE]
       IN
       IF sc.fault = "open"
       THEN /\ embedRes' = EmbedFailure(sc.ekey, "cannot identify image file")
            /\ image' = cover
            /\ macTable' = macTable
       ELSE IF ~bp.ok
       THEN /\ embedRes' = EmbedFailure(sc.ekey, "TypeError")
            /\ image' = cover
            /\ macTable' = macTable
       ELSE IF sc.fault = "ecc" /\ sc.eEcc
       THEN /\ embedRes' = EmbedFailure(sc.ekey, "ecc.encode failed")
            /\ image' = cover
            /\ macTable' = macTable
       ELSE IF sc.fault = "encrypt"
       THEN /\ embedRes' = EmbedFailure(sc.ekey, "encrypt failed")
            /\ image' = cover
            /\ macTable' = macTable
       ELSE
         LET bytes == EncodePayload(bp.dict, sc.eEcc)
             enc == Encrypt(macTable, sc.ekey, bytes)
             encrypted_payload == enc.ct \o enc.tag
             core == CoreEmbed(sc.dims[1], sc.dims[2], encrypted_payload)
             \* Lines 255-263: the search result is assigned and not read
             \* again; self.embedder keeps the strength of its construction.
             current_strength ==
                 IF sc.adaptive
                 THEN FindOptimalStrength(sc.strength,
                                          TrialReadings(core.ok, sc.psnr), sc.target)
                 ELSE sc.strength
             \* Lines 272-300: the save raises, or writes output_path.
             saved == core.ok /\ sc.fault # "save"
         IN
         /\ macTable' = enc.table
         /\ image' = [cover EXCEPT !.data = core.data, !.saved = saved]
         /\ embedRes' = IF core.ok /\ ~saved
                        THEN EmbedFailure(sc.ekey, "cannot write output")
                        ELSE EmbedReturn(sc.ekey, bp.dict, Len(encrypted_payload),
                                         sc.strength, core.ok)
    /\ pc' = "embedded"
    /\ UNCHANGED <<sc, nflips, crypto, idx, tried, result>>

(***************************************************************************)
(* The channel: one bit of one carrier byte inverted.                      *)
(***************************************************************************)
FlipPos(spot, size) ==
    CASE spot = "ct_first" -> 1
      [] spot = "ct_last" -> size - TagLen
      [] spot = "tag_first" -> size - TagLen + 1
      [] OTHER -> size + 1

CarrierByte(img, i) == IF i <= Len(img.data) THEN img.data[i] ELSE CoverByte(i)

FlipBit(byte, bit) ==
    [byte EXCEPT !.flip = IF bit \in @ THEN @ \ {bit} ELSE @ \cup {bit}]

Tamper ==
    /\ pc = "embedded"
    /\ embedRes.success
    /\ nflips < Len(sc.flips)
    /\ LET f == sc.flips[nflips + 1]
           p == FlipPos(f.spot, embedRes.size)
           n == IF p > Len(image.data) THEN p ELSE Len(image.data)
       IN image' = [image EXCEPT !.data =
                      [i \in 1..n |-> IF i = p THEN FlipBit(CarrierByte(image, i), f.bit)
                                      ELSE CarrierByte(image, i)]]
    /\ nflips' = nflips + 1
    /\ UNCHANGED <<sc, pc, embedRes, macTable, crypto, idx, tried, result>>

(***************************************************************************)
(* TruthMarkDetector.detect                                                *)
(***************************************************************************)
\* A range that takes its stop value in.
RangeInclusive(a, b, step) == [i \in 1..((b - a) \div step + 1) |-> a + (i - 1) * step]

\* list(range(a, b, step))
Range(a, b, step) == [i \in 1..((b - a + step - 1) \div step) |-> a + (i - 1) * step]

\* embedded_sizes_to_try
Ladder ==
    Range(FineStart, FineStop, FineStep)
    \o Range(FineStop, MidStop, MidStep)
    \o Range(MidStop, CoarseStop, CoarseStep)

\* An override key that is ignored whenever the instance has a key.
ChooseCryptoInstance(selfKey, argKey) ==
    IF selfKey # 0 THEN selfKey ELSE argKey

\* The engine of this call: the override key when it is given and differs
\* from the instance key, else the instance's engine.
ChooseCrypto(selfKey, argKey) ==
    IF argKey # 0 /\ argKey # selfKey THEN argKey ELSE selfKey

\* An extraction that reads one fine ladder step less than the candidate.
ExtractShort(img, size) == [i \in 1..(size - FineStep) |-> CarrierByte(img, i)]

\* The bytes packed from the bits at the first 8*size sites.
Extract(img, size) == [i \in 1..size |-> CarrierByte(img, i)]

\* A split that takes the tag from the front.
SplitTagFirst(data) ==
    [ct |-> SubSeq(data, TagLen + 1, Len(data)),
     tag |-> SubSeq(data, 1, TagLen)]

\* encrypted_payload = extracted_data[:-32]; integrity_hash = extracted_data[-32:]
Split(data) ==
    [ct |-> SubSeq(data, 1, Len(data) - TagLen),
     tag |-> SubSeq(data, Len(data) - TagLen + 1, Len(data))]

\* Error correction applied to the raw bytes before the tag check: the
\* inverted bits are repaired first.
DecryptStageRepaired(table, key, data) ==
    LET fixed == [i \in DOMAIN data |-> [data[i] EXCEPT !.flip = {}]] IN
    Decrypt(table, key, Split(fixed).ct, Split(fixed).tag)

\* crypto.decrypt(encrypted_payload, integrity_hash) on the raw extracted bytes.
DecryptStage(table, key, data) ==
    Decrypt(table, key, Split(data).ct, Split(data).tag)

\* An ECC stage that falls back to the undecoded bytes when decoding fails.
EccStageLenient(bytes, useEcc) ==
    IF useEcc /\ EccDecode(bytes).ok THEN EccDecode(bytes)
    ELSE [ok |-> TRUE, data |-> bytes, errors |-> 0]

\* ecc.decode(decrypted) when the detector's config enables ECC.
EccStage(bytes, useEcc) ==
    IF useEcc THEN EccDecode(bytes)
    ELSE [ok |-> TRUE, data |-> bytes, errors |-> 0]

Truthy(v) == v.t = "b" /\ v.s = <<1>>

NoResult ==
    [kind |-> "none", detected |-> FALSE, confidence |-> 0, payload |-> <<>>,
     error |-> "", bits |-> 0, requires_label |-> FALSE]

\* DetectResult(detected=False, error_message=msg): confidence and payload
\* keep their defaults 0.0 and None.
Undetected(msg) == [NoResult EXCEPT !.kind = "value", !.error = msg]

\* A _build_result that reports the default of extract_info.get("confidence", 0.8).
BuildResultDefaultConfidence(payload, bits, mode) ==
    [ok |-> payload.t = "o",
     res |-> [kind |-> "value", detected |-> TRUE, confidence |-> 80,
              payload |-> <<payload>>, error |-> "", bits |-> bits,
              requires_label |-> FALSE]]

\* _build_result: the DetectResult, or the exception a payload that is not
\* a dict (or, in ai_compliance mode, an ai_compliance entry that is not a
\* dict) raises.
BuildResult(payload, bits, mode) ==
    IF payload.t # "o" THEN [ok |-> FALSE, res |-> NoResult]
    ELSE
        LET eu == DictGet(payload.o, KeyAiCompliance, JObj(<<>>)) IN
        IF mode = "ai_compliance" /\ eu.t # "o" THEN [ok |-> FALSE, res |-> NoResult]
        ELSE [ok |-> TRUE,
              res |-> [kind |-> "value", detected |-> TRUE, confidence |-> 100,
                       payload |-> <<payload>>, error |-> "", bits |-> bits,
                       requires_label |->
                           /\ mode = "ai_compliance"
                           /\ Truthy(DictGet(eu.o, KeySynthetic, JBool(FALSE)))]]

TrialEnd(outcome) == [outcome |-> outcome, res |-> NoResult]

\* One iteration of the loop over embedded_sizes_to_try.
Trial(img, table, key, useEcc, mode, size) ==
    IF BitsNeeded(size) > MaxBits(img.h, img.w) THEN TrialEnd("skip")
    ELSE IF img.ch # 3 THEN TrialEnd("extract_fail")
    ELSE
        LET data == Extract(img, size) IN
        IF Len(data) < TagLen THEN TrialEnd("short")
        ELSE
            LET dec == DecryptStage(table, key, data) IN
            IF ~dec.ok THEN TrialEnd("auth_fail")
            ELSE
                LET ecc == EccStage(dec.data, useEcc) IN
                IF ~ecc.ok THEN TrialEnd("ecc_fail")
                ELSE
                    LET js == Loads(ecc.data) IN
                    IF ~js.ok THEN TrialEnd("parse_fail")
                    ELSE
                        LET br == BuildResult(js.v, BitsNeeded(size), mode) IN
                        IF ~br.ok THEN TrialEnd("build_fail")
                        ELSE [outcome |-> "ok", res |-> br.res]

\* A swallowed failure that ends the loop instead of continuing it.
AfterFailureBreak(i) == Len(Ladder) + 1

\* `continue`: the loop moves to the next candidate.
AfterFailure(i) == i + 1

\* A loop that gives up after the fine-grained range.
ExhaustedEarly(i) == i > Len(Range(FineStart, FineStop, FineStep))

\* The for loop has run through embedded_sizes_to_try.
Exhausted(i) == i > Len(Ladder)

\* A detect that enters the ladder without an engine.
NoEngineNever(c) == FALSE

\* if not crypto: return DetectResult(detected=False, ...)
NoEngine(c) == c = 0

\* Lines 156-186: load the image, pick the engine, build the ladder.
DetectBegin ==
    /\ pc = "embedded"
    /\ nflips = Len(sc.flips) \/ ~embedRes.success
    /\ IF sc.input = "bad_path"
       THEN /\ result' = Undetected("cannot open image")
            /\ pc' = "returned"
            /\ UNCHANGED <<crypto, idx, image>>
       ELSE /\ image' = [image EXCEPT !.ch = IF sc.input = "gray" THEN 1 ELSE 3]
            /\ crypto' = ChooseCrypto(sc.selfKey, sc.argKey)
            /\ IF NoEngine(crypto')
               THEN /\ result' = Undetected("No decryption key provided")
                    /\ pc' = "returned"
                    /\ idx' = idx
               ELSE /\ pc' = "loop"
                    /\ idx' = 1
                    /\ result' = result
    /\ UNCHANGED <<sc, embedRes, macTable, nflips, tried>>

\* Lines 188-251: one candidate size.
DetectTrial ==
    /\ pc = "loop"
    /\ ~Exhausted(idx)
    /\ LET t == Trial(image, macTable, crypto, sc.dEcc, sc.mode, Ladder[idx]) IN
       /\ tried' = Append(tried, [size |-> Ladder[idx], outcome |-> t.outcome])
       /\ IF t.outcome = "ok"
          THEN /\ result' = t.res
               /\ pc' = "returned"
               /\ idx' = idx
          ELSE /\ idx' = AfterFailure(idx)
               /\ UNCHANGED <<result, pc>>
    /\ UNCHANGED <<sc, embedRes, image, macTable, nflips, crypto>>

\* Lines 253-260: the ladder is exhausted.
DetectExhausted ==
    /\ pc = "loop"
    /\ Exhausted(idx)
    /\ result' = Undetected("No watermark detected or decryption failed")
    /\ pc' = "returned"
    /\ UNCHANGED <<sc, embedRes, image, macTable, nflips, crypto, idx, tried>>

Init ==
    /\ sc \in Runs
    /\ pc = "ready"
    /\ embedRes = EmbedFailure(0, "")
    /\ image = [h |-> 0, w |-> 0, ch |-> 3, data |-> <<>>, saved |-> FALSE]
    /\ macTable = <<>>
    /\ nflips = 0
    /\ crypto = 0
    /\ idx = 0
    /\ tried = <<>>
    /\ result = NoResult

Next ==
    \/ Embed
    \/ Tamper
    \/ DetectBegin
    \/ DetectTrial
    \/ DetectExhausted

Spec == Init /\ [][Next]_vars

\* ---------------------------------------------------------------------
\* Properties of embed followed by detect
\* ---------------------------------------------------------------------

\* The key the caller of detect asked for: the key argument when given,
\* else the instance key (0 when neither is given).
RequestedKey == IF sc.argKey # 0 THEN sc.argKey ELSE sc.selfKey

Last(seq) == seq[Len(seq)]

TriedSizes == {tried[i].size : i \in DOMAIN tried}

\* The image reached the detector exactly as embed produced it.
CleanChannel == nflips = 0 /\ sc.flips = <<>> /\ sc.input = "array"

\* C1: on a clean channel, with the embed key and the same ECC setting, a
\* successful embed of any payload size is followed by a detect that
\* returns detected with the embedded payload.
RoundTripEverySize ==
    (/\ pc = "returned"
     /\ embedRes.success
     /\ CleanChannel
     /\ RequestedKey = sc.ekey
     /\ sc.eEcc = sc.dEcc
     /\ sc.mode = "standard")
    => /\ result.detected
       /\ result.payload = embedRes.payload

\* C2: a detection under the embed key comes from the candidate whose size
\* is the embedded size S; every candidate tried before it was skipped or
\* rejected at extraction or at the tag check, and none of them is S.
LengthSearchSound ==
    (embedRes.success /\ result.detected)
    => /\ pc = "returned"
       /\ crypto = sc.ekey
       /\ tried # <<>>
       /\ Last(tried).size = embedRes.size
       /\ Last(tried).outcome = "ok"
       /\ result.bits = embedRes.size * BitsPerByte
       /\ \A i \in 1..(Len(tried) - 1) :
            /\ tried[i].size # embedRes.size
            /\ tried[i].outcome \in {"skip", "auth_fail"}

\* A detection that came after at least one smaller candidate was
\* extracted and rejected by the tag check.
LengthSearchSoundWitness ==
    /\ embedRes.success
    /\ result.detected
    /\ \E i \in 1..(Len(tried) - 1) : tried[i].outcome = "auth_fail"

\* The candidate sizes the three ranges produce: each range stops short
\* of its stop value.
CodedLadderSet ==
    {s \in FineStart..(CoarseStop - 1) :
        \/ s < FineStop /\ (s - FineStart) % FineStep = 0
        \/ s >= FineStop /\ s < MidStop /\ (s - FineStop) % MidStep = 0
        \/ s >= MidStop /\ (s - MidStop) % CoarseStep = 0}

\* The candidate sizes with both end points taken in.
ClaimedLadderSet ==
    {s \in FineStart..CoarseStop :
        \/ s <= FineStop /\ (s - FineStart) % FineStep = 0
        \/ s >= FineStop /\ s <= MidStop /\ (s - FineStop) % MidStep = 0
        \/ s >= MidStop /\ (s - MidStop) % CoarseStep = 0}

\* The search ran through the whole ladder without a detection.
SearchedAll ==
    /\ pc = "returned"
    /\ result.error = "No watermark detected or decryption failed"

\* C3 (as the code has it): the candidates are 100..496 step 4, 500..980
\* step 20 and 1000..1950 step 50; 100 is a candidate, 2000 is not, and a
\* search without detection tries exactly this set.
LadderAsCoded ==
    /\ TriedSizes \subseteq CodedLadderSet
    /\ SearchedAll => TriedSizes = CodedLadderSet
    /\ FineStart \in CodedLadderSet
    /\ CoarseStop \notin CodedLadderSet

\* C3 (as stated): a search without detection tries exactly 100..500 step
\* 4, 500..1000 step 20 and 1000..2000 step 50, the end points 100 and
\* 2000 included.
LadderAsClaimed ==
    SearchedAll => TriedSizes = ClaimedLadderSet

\* A search that ran to the end of the ladder: its first candidate was
\* 100 and its last 1950.
LadderWitness ==
    /\ SearchedAll
    /\ tried[1].size = FineStart
    /\ Last(tried).size = CoarseStop - CoarseStep

\* C4: candidates are tried in strictly increasing size, and the search
\* stops at the first candidate that passes decryption, ECC decoding and
\* JSON parsing, returning the detection built from it.
StopsAtFirstPassingCandidate ==
    /\ \A i \in 1..(Len(tried) - 1) : tried[i].size < tried[i + 1].size
    /\ (tried # <<>> /\ Last(tried).outcome \in {"ok", "build_fail"})
        => /\ pc = "returned"
           /\ result.detected

\* C5: a candidate that fails (at extraction, tag check, ECC decoding,
\* JSON parsing or result building) leaves the search in the loop at the
\* next candidate, with no result produced and nothing raised.
TrialFailureIsLocal ==
    [][(tried' # tried /\ Last(tried').outcome # "ok")
        => /\ pc' = "loop"
           /\ idx' = idx + 1
           /\ result' = NoResult
           /\ Last(tried').size = Ladder[idx]]_vars

\* An ECC decoding failure was swallowed and a later candidate was tried.
TrialFailureWitness ==
    \E i \in 1..(Len(tried) - 1) :
        /\ tried[i].outcome = "ecc_fail"
        /\ tried[i + 1].size = Ladder[i + 1]

\* C6: with a usable key and a readable image, a not-detected result is
\* returned only after every ladder candidate was tried, in ladder order,
\* and none of them succeeded.
NotDetectedOnlyAfterExhaustion ==
    (/\ pc = "returned"
     /\ ~result.detected
     /\ RequestedKey # 0
     /\ sc.input # "bad_path")
    => /\ Len(tried) = Len(Ladder)
       /\ \A i \in DOMAIN tried :
            /\ tried[i].size = Ladder[i]
            /\ tried[i].outcome # "ok"

\* A not-detected result on a watermarked image whose embedded size was
\* tried and rejected on the way through the whole ladder.
ExhaustionWitness ==
    /\ pc = "returned"
    /\ ~result.detected
    /\ embedRes.success
    /\ Len(tried) = Len(Ladder)
    /\ \E i \in DOMAIN tried :
         tried[i].size = embedRes.size /\ tried[i].outcome = "auth_fail"

\* C7: an image that cannot be read does not come back as the same kind
\* of result as a not-detected search, a detected = FALSE value.
UnreadableIsDistinctKind ==
    (pc = "returned" /\ sc.input = "bad_path")
    => ~(result.kind = "value" /\ ~result.detected)

\* C8: a detect that asks for a key other than the embed key is never a
\* detection, and no candidate gets past the tag check.
WrongKeyRejected ==
    (embedRes.success /\ RequestedKey # 0 /\ RequestedKey # sc.ekey)
    => /\ ~result.detected
       /\ \A i \in DOMAIN tried :
            tried[i].outcome \in {"skip", "extract_fail", "auth_fail"}

\* A finished search under another key in which the candidate of the
\* embedded size was extracted and rejected by the tag check.
WrongKeyWitness ==
    /\ pc = "returned"
    /\ embedRes.success
    /\ CleanChannel
    /\ RequestedKey # 0
    /\ RequestedKey # sc.ekey
    /\ \E i \in DOMAIN tried :
         tried[i].size = embedRes.size /\ tried[i].outcome = "auth_fail"

\* The carrier differs from what embed wrote in the ciphertext region.
CiphertextTampered ==
    /\ embedRes.success
    /\ \E i \in 1..(embedRes.size - TagLen) :
         i <= Len(image.data) /\ image.data[i].flip # {}

\* C9: when a bit of the embedded ciphertext has been changed, no
\* candidate reaches ECC decoding (each is skipped or rejected at
\* extraction or at the tag check) and the result is not a detection.
TamperedCiphertextRejected ==
    CiphertextTampered
    => /\ ~result.detected
       /\ \A i \in DOMAIN tried :
            tried[i].outcome \in {"skip", "extract_fail", "auth_fail"}

\* A finished search under the embed key on a tampered ciphertext, in
\* which the candidate of the embedded size failed the tag check.
TamperWitness ==
    /\ pc = "returned"
    /\ CiphertextTampered
    /\ crypto = sc.ekey
    /\ \E i \in DOMAIN tried :
         tried[i].size = embedRes.size /\ tried[i].outcome = "auth_fail"

\* Decryption of the candidate succeeds but ECC decoding (when enabled) or
\* JSON parsing of its plaintext fails; computed from the carrier.
PartialSuccess(size) ==
    /\ BitsNeeded(size) <= MaxBits(image.h, image.w)
    /\ image.ch = 3
    /\ LET raw == Extract(image, size)
           dec == Decrypt(macTable, crypto,
                          SubSeq(raw, 1, size - TagLen),
                          SubSeq(raw, size - TagLen + 1, size))
       IN /\ dec.ok
          /\ \/ sc.dEcc /\ ~EccDecode(dec.data).ok
             \/ ~Loads(IF sc.dEcc THEN EccDecode(dec.data).data
                       ELSE dec.data).ok

\* C10: a candidate whose decryption succeeds but whose ECC decoding or
\* JSON parsing fails is recorded as a failure and the search goes on; no
\* detection is ever built from such a candidate.
PartialSuccessIsNoDetection ==
    /\ (tried # <<>> /\ pc # "ready" /\ PartialSuccess(Last(tried).size))
        => /\ Last(tried).outcome \in {"ecc_fail", "parse_fail"}
           /\ ~result.detected
    /\ result.detected => ~PartialSuccess(result.bits \div BitsPerByte)

\* A finished search without detection in which the candidate of the
\* embedded size decrypted and then failed JSON parsing.
PartialSuccessWitness ==
    /\ pc = "returned"
    /\ ~result.detected
    /\ embedRes.success
    /\ PartialSuccess(embedRes.size)
    /\ \E i \in DOMAIN tried :
         tried[i].size = embedRes.size /\ tried[i].outcome = "parse_fail"

\* The capacity of the image under detection, in bits.
ImageCapacity ==
    CoefPerBlock * (image.h \div BlockSize) * (image.w \div BlockSize)

\* C11: a candidate S is skipped, with no site selection and no
\* extraction, exactly when 8*S exceeds 15*(H div 8)*(W div 8), so the
\* selector is never asked for more bits than the capacity; an image whose
\* capacity is below 800 bits gives not-detected with every candidate
\* skipped.
CapacityGuard ==
    /\ \A i \in DOMAIN tried :
         (tried[i].outcome = "skip")
            <=> (BitsPerByte * tried[i].size > ImageCapacity)
    /\ (pc = "returned" /\ crypto # 0 /\ sc.input # "bad_path"
            /\ ImageCapacity < BitsPerByte * FineStart)
        => /\ ~result.detected
           /\ Len(tried) = Len(Ladder)
           /\ \A i \in DOMAIN tried : tried[i].outcome = "skip"

\* A finished search on an image of 49 full blocks (735 bits) whose
\* border is not a multiple of 8: every candidate was skipped.
CapacityGuardWitness ==
    /\ pc = "returned"
    /\ crypto # 0
    /\ image.h % BlockSize # 0
    /\ ImageCapacity < BitsPerByte * FineStart
    /\ Len(tried) = Len(Ladder)
    /\ tried[1].outcome = "skip"

(***************************************************************************)
(* The strength search on its own: every combination of readings of the    *)
(* five trial embeds, a raised trial included.                             *)
(***************************************************************************)
Readings == {<<>>} \cup {<<80 + d>> : d \in (0 - MaxPsnrDev)..MaxPsnrDev}

StrengthInputs ==
    [strength : {20}, target : {80}, meas : [DOMAIN StrengthFactors -> Readings]]

InitStrength ==
    /\ sc \in StrengthInputs
    /\ pc = "ready"
    /\ embedRes = EmbedFailure(0, "")
    /\ image = [h |-> 0, w |-> 0, ch |-> 3, data |-> <<>>, saved |-> FALSE]
    /\ macTable = <<>>
    /\ nflips = 0
    /\ crypto = 0
    /\ idx = 0
    /\ tried = <<>>
    /\ result = NoResult

\* One call of _find_optimal_strength.
FindStrength ==
    /\ pc = "ready"
    /\ result' = [kind |-> "value",
                  strength |-> FindOptimalStrength(sc.strength, sc.meas, sc.target)]
    /\ pc' = "returned"
    /\ UNCHANGED <<sc, embedRes, image, macTable, nflips, crypto, idx, tried>>

NextStrength == FindStrength

SpecStrength == InitStrength /\ [][NextStrength]_vars

\* The ladder entries whose trial embed returned a reading, and the
\* distance of each reading from the target.
Measured == {i \in DOMAIN sc.meas : sc.meas[i] # <<>>}
PsnrDiff(i) == Abs(sc.meas[i][1] - sc.target)

\* The lowest entry among those closest to the target.
ClosestEntry ==
    Least({i \in Measured : \A j \in Measured : PsnrDiff(i) <= PsnrDiff(j)})

\* The entries within 0.5 dB of the target.
CloseEnough == {i \in Measured : PsnrDiff(i) <= Tolerance}

StrengthUsedIsChosen ==
    (sc.adaptive /\ embedRes.success)
    => embedRes.strength =
          FindOptimalStrength(sc.strength, TrialReadings(TRUE, sc.psnr), sc.target)

\* The bits the payload of the run needs once serialised, ECC encoded,
\* encrypted and tagged, against the capacity of the image of the run.
PayloadOversize ==
    LET bp == BuildPayload(CallerInfo(sc), sc.aiAct) IN
    /\ bp.ok
    /\ BitsPerByte * (Len(EncodePayload(bp.dict, sc.eEcc)) + TagLen)
          > CoefPerBlock * (sc.dims[1] \div BlockSize) * (sc.dims[2] \div BlockSize)

\* C14: a payload that needs more bits than the capacity makes embed
\* return a PayloadTooLarge failure, never a success, and no image is
\* written; the same with adaptive strength enabled, where each of the
\* five strength trials has failed first.
OversizePayloadFails ==
    (pc # "ready" /\ PayloadOversize)
    => /\ ~embedRes.success
       /\ embedRes.error = "PayloadTooLarge"
       /\ embedRes.payload = <<>>
       /\ image.data = <<>>

\* An embed with adaptive strength of a 132-byte payload into an image of
\* 120 bytes capacity has returned its failure.
OversizeWitness ==
    /\ pc = "embedded"
    /\ sc.adaptive
    /\ PayloadOversize
    /\ ~embedRes.success

\* The serialised payload of a successful embed, and its ECC encoding when
\* the embedder's ECC is on.
SerialisedPayload == DumpsValue(embedRes.payload[1])
EncodedPlaintext ==
    IF sc.eEcc THEN EccEncode(SerialisedPayload) ELSE SerialisedPayload

\* C15: the embedded bytes are the encryption of the ECC encoding of the
\* serialised payload followed by the 32-byte tag, with as many ciphertext
\* bytes as encoded plaintext bytes; the extractor splits the S extracted
\* bytes into the first S-32 (ciphertext) and the last 32 (tag), which are
\* the two parts embed concatenated, decrypts them to the ECC-encoded
\* plaintext and only then ECC-decodes to the serialised payload.
PipelineOrder ==
    (pc # "ready" /\ embedRes.success /\ nflips = 0)
    => LET S == embedRes.size
           plain == EncodedPlaintext
           raw == Extract(image, S)
           parts == Split(raw)
           dec == Decrypt(macTable, sc.ekey, parts.ct, parts.tag)
       IN /\ S = Len(plain) + TagLen
          /\ Len(image.data) = S
          /\ \A i \in 1..Len(plain) :
               image.data[i] = EncByte(sc.ekey, i, plain[i])
          /\ \A j \in 1..TagLen :
               /\ image.data[Len(plain) + j].kind = "tag"
               /\ image.data[Len(plain) + j].idx = j
          /\ parts.ct = SubSeq(image.data, 1, S - TagLen)
          /\ parts.tag = SubSeq(image.data, S - TagLen + 1, S)
          /\ parts.ct \o parts.tag = raw
          /\ dec.ok
          /\ dec.data = plain
          /\ sc.eEcc => /\ EccDecode(dec.data).ok
                        /\ EccDecode(dec.data).data = SerialisedPayload
          /\ (result.detected /\ sc.dEcc)
                => result.payload = <<Loads(EccDecode(dec.data).data).v>>

\* A detection with ECC on both sides whose payload is the embedded one,
\* found after smaller candidates were rejected.
PipelineWitness ==
    /\ pc = "returned"
    /\ result.detected
    /\ sc.eEcc
    /\ sc.dEcc
    /\ nflips = 0
    /\ Len(tried) > 1
    /\ result.payload = embedRes.payload

\* Byte-wise lexicographic order of two keys.
LexLess(a, b) ==
    \/ \E i \in 1..Min(Len(a), Len(b)) :
          /\ a[i] < b[i]
          /\ \A j \in 1..(i - 1) : a[j] = b[j]
    \/ /\ Len(a) < Len(b)
       /\ \A j \in 1..Len(a) : a[j] = b[j]

\* The members of every object of the value come in sorted key order.
RECURSIVE KeysSorted(_)
KeysSorted(v) ==
    v.t = "o" =>
        /\ \A i \in 1..(Len(v.o) - 1) : LexLess(v.o[i].k, v.o[i + 1].k)
        /\ \A i \in DOMAIN v.o : KeysSorted(v.o[i].v)

\* C16: the bytes embed serialises are canonical JSON: no whitespace
\* between tokens and the keys of every object in lexicographic order.
PayloadIsCanonicalJson ==
    embedRes.success
    => /\ KeysSorted(embedRes.payload[1])
       /\ \A i \in DOMAIN SerialisedPayload : ~IsWs(SerialisedPayload[i])

(***************************************************************************)
(* The site selector: the first n_bits entries of a fixed permutation of   *)
(* the (block, coefficient) pairs of the image.                            *)
(***************************************************************************)

\* The 15 mid-frequency positions, zig-zag 6..20, as (row, column).
MidFreq ==
    << <<0, 3>>, <<1, 2>>, <<2, 1>>, <<3, 0>>, <<4, 0>>,
       <<3, 1>>, <<2, 2>>, <<1, 3>>, <<0, 4>>, <<0, 5>>,
       <<1, 4>>, <<2, 3>>, <<3, 2>>, <<4, 1>>, <<5, 0>> >>

\* The fixed global seed of the permutation.
SiteSeed == 7

RECURSIVE Gcd(_, _)
Gcd(a, b) == IF b = 0 THEN a ELSE Gcd(b, a % b)

\* A map of 0..total-1 that sends two positions to the same pair.
SitePermutationFolded(total, i) == (i * i + SiteSeed) % total

\* Position i of the seeded permutation of 0..total-1.
SitePermutation(total, i) ==
    LET mult == Least({m \in SiteSeed..(SiteSeed + total) : Gcd(m, total) = 1})
    IN (mult * i + SiteSeed) % total

\* The site (block_y, block_x, coef_y, coef_x) of pair number p.
SiteOf(w, p) ==
    LET blk == p \div CoefPerBlock
        pos == MidFreq[(p % CoefPerBlock) + 1]
        blocks_w == w \div BlockSize
    IN <<blk \div blocks_w, blk % blocks_w, pos[1], pos[2]>>

SitesFail == [ok |-> FALSE, sites |-> <<>>]

\* A selector that walks the permutation from the other end when the
\* saliency map prefers the right half of the image.
SelectBySaliency(h, w, n_bits, saliency_map) ==
    LET total == MaxBits(h, w) IN
    IF n_bits > total THEN SitesFail
    ELSE [ok |-> TRUE,
          sites |-> [i \in 1..n_bits |->
                       SiteOf(w, SitePermutation(total,
                           IF saliency_map = "right" THEN total - i ELSE i - 1))]]

\* WatermarkEmbedder._select_embedding_locations: ImageTooSmall, or the
\* first n_bits sites; the saliency map has no part in the order.
SelectEmbeddingLocations(h, w, n_bits, saliency_map) ==
    LET total == MaxBits(h, w) IN
    IF n_bits > total THEN SitesFail
    ELSE [ok |-> TRUE,
          sites |-> [i \in 1..n_bits |-> SiteOf(w, SitePermutation(total, i - 1))]]

Sides == {7, 12} \cup {BlockSize * k : k \in 1..MaxBlockSide}
SaliencyMaps == {"none", "uniform", "left", "right"}

\* Bit counts around the first block and around the capacity.
BitCounts(h, w) ==
    ({0, 1, 8, 15, 16} \cup {MaxBits(h, w) + d : d \in {-1, 0, 1, 8}}) \cap Nat

SiteInputs ==
    UNION {{[h |-> h, w |-> w, n_bits |-> n, saliency |-> s] :
                n \in BitCounts(h, w), s \in SaliencyMaps} :
            h \in Sides, w \in Sides}

InitSites ==
    /\ sc \in SiteInputs
    /\ pc = "ready"
    /\ embedRes = EmbedFailure(0, "")
    /\ image = [h |-> 0, w |-> 0, ch |-> 3, data |-> <<>>, saved |-> FALSE]
    /\ macTable = <<>>
    /\ nflips = 0
    /\ crypto = 0
    /\ idx = 0
    /\ tried = <<>>
    /\ result = NoResult

\* The selection the embedder makes with its saliency map, and the one the
\* detector makes for the same shape and bit count with saliency_map=None.
SelectSites ==
    /\ pc = "ready"
    /\ result' =
          [kind |-> "value",
           embed_sites |->
               SelectEmbeddingLocations(sc.h, sc.w, sc.n_bits, sc.saliency),
           detect_sites |->
               SelectEmbeddingLocations(sc.h, sc.w, sc.n_bits, "none")]
    /\ pc' = "returned"
    /\ UNCHANGED <<sc, embedRes, image, macTable, nflips, crypto, idx, tried>>

NextSites == SelectSites

SpecSites == InitSites /\ [][NextSites]_vars

SitesWellFormed ==
    pc = "returned"
    => LET r == result.detect_sites
           cap == CoefPerBlock * (sc.h \div BlockSize) * (sc.w \div BlockSize)
       IN IF sc.n_bits > cap
          THEN ~r.ok /\ r.sites = <<>>
          ELSE /\ r.ok
               /\ Len(r.sites) = sc.n_bits
               /\ \A i, j \in DOMAIN r.sites : i # j => r.sites[i] # r.sites[j]
               /\ \A i \in DOMAIN r.sites :
                    /\ r.sites[i][1] \in 0..((sc.h \div BlockSize) - 1)
                    /\ r.sites[i][2] \in 0..((sc.w \div BlockSize) - 1)
                    /\ \E m \in DOMAIN MidFreq :
                         <<r.sites[i][3], r.sites[i][4]>> = MidFreq[m]

\* A selection that used every site of an image of more than one block in
\* each direction.
SitesFullWitness ==
    /\ pc = "returned"
    /\ sc.h \div BlockSize > 1
    /\ sc.w \div BlockSize > 1
    /\ result.detect_sites.ok
    /\ sc.n_bits = CoefPerBlock * (sc.h \div BlockSize) * (sc.w \div BlockSize)

(***************************************************************************)
(* _extract_bits_from_dct: one bit per location, from the sign of the DCT  *)
(* coefficient read there.                                                 *)
(***************************************************************************)

\* A reading that takes a zero coefficient for a 1.
BitOfNonNegative(coefficient) == IF coefficient >= 0 THEN 1 ELSE 0

\* bit = 1 if coefficient > 0 else 0
BitOf(coefficient) == IF coefficient > 0 THEN 1 ELSE 0

Coefficients == (0 - MaxCoef)..MaxCoef

\* The coefficients dct_block[coef_y, coef_x] at the locations, in the
\* order of the location list.
BitInputs ==
    UNION {{[coefs |-> c] : c \in [1..n -> Coefficients]} : n \in 0..MaxSites}

InitBits ==
    /\ sc \in BitInputs
    /\ pc = "loop"
    /\ embedRes = EmbedFailure(0, "")
    /\ image = [h |-> 0, w |-> 0, ch |-> 3, data |-> <<>>, saved |-> FALSE]
    /\ macTable = <<>>
    /\ nflips = 0
    /\ crypto = 0
    /\ idx = 1
    /\ tried = <<>>
    /\ result = [kind |-> "none", bits |-> <<>>]

\* One iteration of the loop over locations.
ExtractBit ==
    /\ pc = "loop"
    /\ idx <= Len(sc.coefs)
    /\ result' = [result EXCEPT !.bits = Append(@, BitOf(sc.coefs[idx]))]
    /\ idx' = idx + 1
    /\ UNCHANGED <<sc, pc, embedRes, image, macTable, nflips, crypto, tried>>

\* return bits
ExtractBitsReturn ==
    /\ pc = "loop"
    /\ idx > Len(sc.coefs)
    /\ result' = [result EXCEPT !.kind = "value"]
    /\ pc' = "returned"
    /\ UNCHANGED <<sc, embedRes, image, macTable, nflips, crypto, idx, tried>>

NextBits == ExtractBit \/ ExtractBitsReturn

SpecBits == InitBits /\ [][NextBits]_vars

\* C19: the extraction returns exactly one bit per location, in location
\* order, and the bit is 1 exactly when the coefficient there is strictly
\* positive; a coefficient of 0 reads as 0.
BitIsSignOfCoefficient ==
    /\ Len(result.bits) = idx - 1
    /\ \A i \in DOMAIN result.bits :
         /\ result.bits[i] \in {0, 1}
         /\ result.bits[i] = 1 <=> sc.coefs[i] > 0
    /\ pc = "returned" => Len(result.bits) = Len(sc.coefs)

\* A finished extraction over a negative, a zero and a positive
\* coefficient.
BitWitness ==
    /\ pc = "returned"
    /\ \E i, j, k \in DOMAIN sc.coefs :
         /\ sc.coefs[i] < 0 /\ result.bits[i] = 0
         /\ sc.coefs[j] = 0 /\ result.bits[j] = 0
         /\ sc.coefs[k] > 0 /\ result.bits[k] = 1

(***************************************************************************)
(* TruthMarkIntegrator.embed_mandatory and watermark_ai_generation.        *)
(***************************************************************************)

\* An image: the generated content it shows and whether it carries the
\* watermark.
Original(id) == [id |-> id, watermarked |-> FALSE]
Watermarked(id) == [id |-> id, watermarked |-> TRUE]

\* A call of embed_mandatory (or of the convenience function, which builds
\* its integrator with required=True): how the image is given, what
\* payload_builder.build does (a payload, a payload without truthmark_id,
\* an exception) and what the core embed does.
IntegratorInputs ==
    {[api |-> a, required |-> r, image_kind |-> k, build |-> b, core |-> c, id |-> i] :
        a \in {"embed_mandatory", "watermark_ai_generation"}, r \in BOOLEAN,
        k \in {"array", "pil", "path", "bad_path"},
        b \in {"ok", "no_id", "raise"},
        c \in {"ok", "too_large", "type_error"},
        i \in 1..NumImages}

\* The exception the try block of embed_mandatory ends with, "" when it
\* runs to its return.
TryOutcome(run) ==
    IF run.image_kind = "bad_path" THEN "cannot open image"
    ELSE IF run.build = "raise" THEN "payload build failed"
    ELSE IF run.core = "too_large" THEN "PayloadTooLarge"
    ELSE IF run.core = "type_error" THEN "TypeError"
    ELSE IF run.build = "no_id" THEN "KeyError: truthmark_id"
    ELSE ""

\* A handler that hands the input image back instead of raising.
OnFailureFallback(required, run, msg) ==
    [kind |-> "value", success |-> FALSE,
     watermarked_image |-> <<Original(run.id)>>,
     encryption_key |-> "", error_message |-> msg]

\* The except branch: RuntimeError when required, else the failure result.
OnFailure(required, run, msg) ==
    IF required
    THEN [kind |-> "raised", success |-> FALSE, watermarked_image |-> <<>>,
          encryption_key |-> "", error_message |-> msg]
    ELSE [kind |-> "value", success |-> FALSE, watermarked_image |-> <<>>,
          encryption_key |-> "", error_message |-> msg]

\* embed_mandatory as a function of its call.
EmbedMandatoryResult(required, run) ==
    IF TryOutcome(run) # ""
    THEN OnFailure(required, run, TryOutcome(run))
    ELSE [kind |-> "value", success |-> TRUE,
          watermarked_image |-> <<Watermarked(run.id)>>,
          encryption_key |-> "generated", error_message |-> ""]

InitIntegrator ==
    /\ sc \in IntegratorInputs
    /\ pc = "ready"
    /\ embedRes = EmbedFailure(0, "")
    /\ image = [h |-> 0, w |-> 0, ch |-> 3, data |-> <<>>, saved |-> FALSE]
    /\ macTable = <<>>
    /\ nflips = 0
    /\ crypto = 0
    /\ idx = 0
    /\ tried = <<>>
    /\ result = NoResult

EmbedMandatory ==
    /\ pc = "ready"
    /\ sc.api = "embed_mandatory"
    /\ result' = EmbedMandatoryResult(sc.required, sc)
    /\ pc' = "returned"
    /\ UNCHANGED <<sc, embedRes, image, macTable, nflips, crypto, idx, tried>>

\* watermark_ai_generation: a required=True integrator, then the pair
\* (watermarked_image, encryption_key) or RuntimeError.
WatermarkAiGeneration ==
    /\ pc = "ready"
    /\ sc.api = "watermark_ai_generation"
    /\ LET r == EmbedMandatoryResult(TRUE, sc) IN
       result' = IF r.kind = "value" /\ ~r.success
                 THEN [r EXCEPT !.kind = "raised"]
                 ELSE r
    /\ pc' = "returned"
    /\ UNCHANGED <<sc, embedRes, image, macTable, nflips, crypto, idx, tried>>

NextIntegrator == EmbedMandatory \/ WatermarkAiGeneration

SpecIntegrator == InitIntegrator /\ [][NextIntegrator]_vars

\* The call failed somewhere before its return: image loading, payload
\* building, the core embed or the payload's truthmark_id.
IntegrationFails ==
    \/ sc.image_kind = "bad_path"
    \/ sc.build # "ok"
    \/ sc.core # "ok"

Mandatory == sc.required \/ sc.api = "watermark_ai_generation"

\* C20: a mandatory call raises on every failure and whatever it returns
\* is a success with a watermarked image; no call, mandatory or not,
\* returns the input image un-watermarked; a non-mandatory failure is a
\* result with no image, an empty key and an error message.
MandatoryNeverUnwatermarked ==
    pc = "returned"
    => /\ (Mandatory /\ IntegrationFails) => result.kind = "raised"
       /\ (Mandatory /\ result.kind = "value")
            => /\ result.success
               /\ result.watermarked_image = <<Watermarked(sc.id)>>
       /\ result.kind = "value"
            => result.watermarked_image # <<Original(sc.id)>>
       /\ (~Mandatory /\ IntegrationFails)
            => /\ result.kind = "value"
               /\ ~result.success
               /\ result.watermarked_image = <<>>
               /\ result.encryption_key = ""
               /\ result.error_message # ""
       /\ ~IntegrationFails
            => /\ result.kind = "value"
               /\ result.success

\* A mandatory call whose core embed failed for capacity has raised.
MandatoryWitness ==
    /\ pc = "returned"
    /\ sc.api = "embed_mandatory"
    /\ sc.required
    /\ sc.core = "too_large"
    /\ sc.build = "ok"
    /\ sc.image_kind = "array"
    /\ result.kind = "raised"

\* ---------------------------------------------------------------------
\* One embedder and one detector, constructed and then called repeatedly
\* ---------------------------------------------------------------------

\* Calls made on the instances after their construction.
MaxCalls == 2

\* CryptoEngine() with no argument generates a key no caller supplied.
GeneratedKey == NumKeys + 1

\* A constructor that lets config.encryption_key win over the key argument.
NewEmbedderConfigFirst(key, cfgKey, strength) ==
    IF cfgKey # 0 THEN [key |-> cfgKey, crypto |-> cfgKey, strength |-> strength]
    ELSE IF key # 0 THEN [key |-> key, crypto |-> key, strength |-> strength]
    ELSE [key |-> GeneratedKey, crypto |-> GeneratedKey, strength |-> strength]

\* TruthMarkEmbedder.__init__, lines 141-166: self.crypto, self.key and the
\* core embedder's strength.
NewEmbedder(key, cfgKey, strength) ==
    IF key # 0 THEN [key |-> key, crypto |-> key, strength |-> strength]
    ELSE IF cfgKey # 0 THEN [key |-> cfgKey, crypto |-> cfgKey, strength |-> strength]
    ELSE [key |-> GeneratedKey, crypto |-> GeneratedKey, strength |-> strength]

\* TruthMarkDetector.__init__, lines 128-139: self.mode, self.key, self.crypto.
NewDetector(key, mode) == [key |-> key, crypto |-> key, mode |-> mode]

CallInputs ==
    [keyArg : OptKeys, cfgKey : OptKeys, dkey : OptKeys, mode : Modes,
     adaptive : BOOLEAN, strength : {20}]

\* What embed() meets on its way: an unreadable input, a failing save, or
\* neither.
EmbedEnvs == {"ok", "unreadable", "save_fail"}

\* A detect that keeps the override engine on the instance.
DetectorAfterDetectRebound(self, key) ==
    IF key # 0 /\ key # self.key
    THEN [self EXCEPT !.key = key, !.crypto = key]
    ELSE self

\* The detector after detect(image, key): `crypto` is a local of the call,
\* no attribute is assigned.
DetectorAfterDetect(self, key) == self

\* The embedder after embed(): current_strength and the test embedders of
\* _find_optimal_strength are locals of the call.
EmbedderAfterEmbed(self, current_strength) == self

\* The fields of the EmbedResult that come from the instance, and the key
\* of the engine that encrypted (0 when the call failed before encrypting).
EmbedCallResult(self, env) ==
    [success |-> env = "ok",
     key |-> self.key,
     enc_key |-> IF env = "unreadable" THEN 0 ELSE self.crypto,
     strength |-> IF env = "unreadable" THEN 0 ELSE self.strength]

\* What detect() takes from the instance: the engine of the trials (0: the
\* no-key return) and the mode of _build_result.
DetectCallResult(self, key) ==
    [engine |-> IF key # 0 /\ key # self.key THEN key ELSE self.crypto,
     mode |-> self.mode]

InitCalls ==
    /\ \E a \in CallInputs : sc = [args |-> a, emb |-> <<>>, det |-> <<>>]
    /\ pc = "ready"
    /\ embedRes = EmbedFailure(0, "")
    /\ image = [h |-> 0, w |-> 0, ch |-> 3, data |-> <<>>, saved |-> FALSE]
    /\ macTable = <<>>
    /\ nflips = 0
    /\ crypto = 0
    /\ idx = 0
    /\ tried = <<>>
    /\ result = NoResult

\* TruthMarkEmbedder(key=..., config=...) and TruthMarkDetector(key=..., mode=...)
Construct ==
    /\ pc = "ready"
    /\ sc' = [sc EXCEPT
                !.emb = <<NewEmbedder(sc.args.keyArg, sc.args.cfgKey, sc.args.strength)>>,
                !.det = <<NewDetector(sc.args.dkey, sc.args.mode)>>]
    /\ pc' = "live"
    /\ UNCHANGED <<embedRes, image, macTable, nflips, crypto, idx, tried, result>>

\* embedder.embed(...)
CallEmbed ==
    /\ pc = "live"
    /\ Len(tried) < MaxCalls
    /\ \E env \in EmbedEnvs, c \in PsnrCurves :
          LET self == sc.emb[1]
              current_strength ==
                  IF sc.args.adaptive /\ env # "unreadable"
                  THEN FindOptimalStrength(self.strength, TrialReadings(TRUE, c), 80)
                  ELSE self.strength
              out == EmbedCallResult(self, env)
          IN
          /\ sc' = [sc EXCEPT !.emb = <<EmbedderAfterEmbed(self, current_strength)>>]
          /\ result' = [kind |-> "value", call |-> "embed", out |-> out]
          /\ tried' = Append(tried, [call |-> "embed", arg |-> env, out |-> out,
                                     before |-> sc, after |-> sc'])
    /\ UNCHANGED <<pc, embedRes, image, macTable, nflips, crypto, idx>>

\* detector.detect(image, key)
CallDetect ==
    /\ pc = "live"
    /\ Len(tried) < MaxCalls
    /\ \E key \in OptKeys :
          LET self == sc.det[1]
              out == DetectCallResult(self, key)
          IN
          /\ sc' = [sc EXCEPT !.det = <<DetectorAfterDetect(self, key)>>]
          /\ result' = [kind |-> "value", call |-> "detect", out |-> out]
          /\ tried' = Append(tried, [call |-> "detect", arg |-> key, out |-> out,
                                     before |-> sc, after |-> sc'])
    /\ UNCHANGED <<pc, embedRes, image, macTable, nflips, crypto, idx>>

NextCalls ==
    \/ Construct
    \/ CallEmbed
    \/ CallDetect

SpecCalls == InitCalls /\ [][NextCalls]_vars

\* C21: no call changes the instances: after every call the embedder's key,
\* engine and strength and the detector's key, engine and mode are those the
\* constructors set, and two calls with the same arguments return the same
\* result wherever they stand in the sequence of calls.
NoStateSharedAcrossCalls ==
    /\ \A i \in DOMAIN tried :
          /\ tried[i].after = tried[1].before
          /\ tried[i].after.emb =
                <<NewEmbedder(sc.args.keyArg, sc.args.cfgKey, sc.args.strength)>>
          /\ tried[i].after.det = <<NewDetector(sc.args.dkey, sc.args.mode)>>
    /\ \A i, j \in DOMAIN tried :
          (tried[i].call = tried[j].call /\ tried[i].arg = tried[j].arg)
              => tried[i].out = tried[j].out

\* A detect with an override key that differs from the instance key has
\* been followed by a detect without one.
NoStateSharedWitness ==
    /\ Len(tried) = 2
    /\ tried[1].call = "detect"
    /\ tried[1].arg # 0
    /\ tried[1].arg # tried[1].before.det[1].key
    /\ tried[1].before.det[1].key # 0
    /\ tried[2].call = "detect"
    /\ tried[2].arg = 0
    /\ sc.args.adaptive

\* The key of the precedence explicit argument, config.encryption_key,
\* generated key.
KeyByPrecedence ==
    IF sc.args.keyArg # 0 THEN sc.args.keyArg
    ELSE IF sc.args.cfgKey # 0 THEN sc.args.cfgKey
    ELSE GeneratedKey

\* C22: the embedder's key is the explicit key argument when given, else
\* config.encryption_key when set, else a generated key, and every
\* EmbedResult, of a success or of a failure, reports that key, which is
\* the key of the engine that encrypted whenever the call encrypted.
EmbedKeyPrecedence ==
    \A i \in DOMAIN tried :
        tried[i].call = "embed" =>
            /\ tried[i].out.key = KeyByPrecedence
            /\ tried[i].out.enc_key # 0 => tried[i].out.enc_key = tried[i].out.key

\* Both an explicit key and a different config key were given, and one
\* embed succeeded and one failed.
EmbedKeyWitness ==
    /\ sc.args.keyArg # 0
    /\ sc.args.cfgKey # 0
    /\ sc.args.keyArg # sc.args.cfgKey
    /\ \E i, j \in DOMAIN tried :
          /\ tried[i].call = "embed" /\ tried[i].out.success
          /\ tried[i].out.enc_key = sc.args.keyArg
          /\ tried[j].call = "embed" /\ ~tried[j].out.success

DetectedIffPayload ==
    pc = "returned" =>
        /\ result.kind = "value"
        /\ result.detected <=> result.payload # <<>>
        /\ result.detected => result.confidence = 100
        /\ ~result.detected => (result.confidence = 0 /\ result.payload = <<>>)

\* A detection: the loop returned the result _build_result made of a
\* parsed payload.
DetectedWitness ==
    /\ pc = "returned"
    /\ result.detected
    /\ result.payload # <<>>
    /\ result.payload[1].t = "o"
    /\ tried # <<>>
    /\ Last(tried).outcome = "ok"

\* The step of embed() at which the run's fault, if any, strikes.
EmbedFaulted ==
    \/ sc.fault \in {"open", "encrypt", "save"}
    \/ sc.fault = "ecc" /\ sc.eEcc

\* C28: embed always returns an EmbedResult: a failure at any step
\* (unreadable input, payload too large, ECC, encryption, save) gives
\* success = false with a non-empty error message, the embedder's key and
\* no output path, payload or image, and success = true is returned only
\* once the watermarked image is written to the output path.
EmbedReturnsEveryFailure ==
    pc # "ready" =>
        /\ (EmbedFaulted \/ PayloadOversize) => ~embedRes.success
        /\ ~embedRes.success =>
              /\ embedRes.error # ""
              /\ embedRes.key = sc.ekey
              /\ embedRes.output_path = <<>>
              /\ embedRes.payload = <<>>
              /\ ~embedRes.image
        /\ embedRes.success =>
              /\ image.saved
              /\ embedRes.output_path # <<>>
              /\ embedRes.key = sc.ekey

\* The save raised after the core embed had succeeded.
EmbedFailureWitness ==
    /\ pc # "ready"
    /\ sc.fault = "save"
    /\ image.data # <<>>
    /\ ~embedRes.success
    /\ embedRes.error = "cannot write output"

\* ---------------------------------------------------------------------
\* embed_batch and detect_batch
\* ---------------------------------------------------------------------

\* Images of one batch.
MaxBatch == 2

\* image_paths as the outcome the single call has on each image, and the
\* per-image argument (copyright_infos or keys): one value for all images,
\* or a list of its own length.
BatchInputs ==
    {[api |-> a, images |-> im, per |-> p] :
        a \in {"embed_batch", "detect_batch"},
        im \in UNION {[1..n -> {"ok", "bad"}] : n \in 0..MaxBatch},
        p \in {[kind |-> "single", len |-> 0]}
              \cup {[kind |-> "list", len |-> m] : m \in 0..(MaxBatch + 1)}}

\* copyright_infos = [copyright_infos] * len(image_paths) for a dict;
\* keys_list = [keys] * len(image_paths) for a str or None; a list is taken
\* as it is.  The entry says which per-image value it is.
PerImageList(per, n) ==
    IF per.kind = "single" THEN [i \in 1..n |-> "shared"]
    ELSE [i \in 1..per.len |-> "own"]

\* zip(image_paths, per_image_list): the pairs up to the shorter of the two.
Zip(a, b) == [i \in 1..Min(Len(a), Len(b)) |-> <<i, a[i], b[i]>>]

InitBatch ==
    /\ sc \in BatchInputs
    /\ pc = "loop"
    /\ embedRes = EmbedFailure(0, "")
    /\ image = [h |-> 0, w |-> 0, ch |-> 3, data |-> <<>>, saved |-> FALSE]
    /\ macTable = <<>>
    /\ nflips = 0
    /\ crypto = 0
    /\ idx = 1
    /\ tried = <<>>
    /\ result = [kind |-> "none", list |-> <<>>]

\* One iteration: results.append(self.embed(...)) or
\* results.append(self.detect(...)); neither call raises.
BatchStep ==
    /\ pc = "loop"
    /\ LET pairs == Zip(sc.images, PerImageList(sc.per, Len(sc.images))) IN
       /\ idx <= Len(pairs)
       /\ tried' = Append(tried, [image |-> pairs[idx][1],
                                  ok |-> pairs[idx][2] = "ok",
                                  arg |-> pairs[idx][3]])
    /\ idx' = idx + 1
    /\ UNCHANGED <<sc, pc, embedRes, image, macTable, nflips, crypto, result>>

\* return results
BatchReturn ==
    /\ pc = "loop"
    /\ idx > Len(Zip(sc.images, PerImageList(sc.per, Len(sc.images))))
    /\ result' = [kind |-> "value", list |-> tried]
    /\ pc' = "returned"
    /\ UNCHANGED <<sc, embedRes, image, macTable, nflips, crypto, idx, tried>>

NextBatch ==
    \/ BatchStep
    \/ BatchReturn

SpecBatch == InitBatch /\ [][NextBatch]_vars

\* C24: a batch call returns one result for each input image, in input
\* order, whatever the length of a per-image list, and an image that fails
\* does not keep the later images from being processed.
BatchOneResultPerImage ==
    pc = "returned" =>
        /\ Len(result.list) = Len(sc.images)
        /\ \A i \in DOMAIN result.list :
              /\ result.list[i].image = i
              /\ result.list[i].ok = (sc.images[i] = "ok")

\* ---------------------------------------------------------------------
\* verify_copyright
\* ---------------------------------------------------------------------

KeyOwner == <<111, 119, 110, 101, 114>>
KeyAuthor == <<97, 117, 116, 104, 111, 114>>
TextGetty == <<71, 101, 116, 116, 121>>
TextBob == <<66, 111, 98>>

\* str.lower() on ASCII text.
Lower(chars) ==
    [i \in DOMAIN chars |->
        IF chars[i] >= 65 /\ chars[i] <= 90 THEN chars[i] + 32 ELSE chars[i]]

\* needle in hay
Contains(needle, hay) ==
    \E i \in 0..(Len(hay) - Len(needle)) :
        SubSeq(hay, i + 1, i + Len(needle)) = needle

\* Python truth value of a JSON value.
PyTruthy(v) ==
    CASE v.t = "n" -> FALSE
      [] v.t = "s" -> v.s # <<>>
      [] v.t = "b" -> v.s = <<1>>
      [] OTHER -> v.o # <<>>

\* a or b
PyOr(a, b) == IF PyTruthy(a) THEN a ELSE b

\* An owner lookup that prefers the copyright field.
ActualOwnerCopyrightFirst(payload) ==
    IF payload = <<>> \/ payload[1].o = <<>> THEN JStr(<<>>)
    ELSE PyOr(PyOr(DictGet(payload[1].o, KeyCopyright, JNull),
                   DictGet(payload[1].o, KeyOwner, JNull)),
              DictGet(payload[1].o, KeyAuthor, JStr(<<>>)))

\* actual_owner: "" unless the payload is a non-empty dict, then
\* payload.get("owner") or payload.get("author") or payload.get("copyright", "")
ActualOwner(payload) ==
    IF payload = <<>> \/ payload[1].o = <<>> THEN JStr(<<>>)
    ELSE PyOr(PyOr(DictGet(payload[1].o, KeyOwner, JNull),
                   DictGet(payload[1].o, KeyAuthor, JNull)),
              DictGet(payload[1].o, KeyCopyright, JStr(<<>>)))

\* verify_copyright after its detect() call returned res: the dict it
\* returns, or the AttributeError of .lower() on an owner that is no str.
VerifyCopyright(res, expected_owner) ==
    IF ~res.detected
    THEN [kind |-> "value", verified |-> FALSE, confidence |-> 0,
          actual_owner |-> <<>>]
    ELSE
        LET actual_owner == ActualOwner(res.payload) IN
        IF actual_owner.t # "s"
        THEN [kind |-> "raised", verified |-> FALSE, confidence |-> 0,
              actual_owner |-> <<>>]
        ELSE [kind |-> "value",
              verified |-> Contains(Lower(expected_owner), Lower(actual_owner.s)),
              confidence |-> res.confidence,
              actual_owner |-> actual_owner.s]

\* Values a payload field can hold; <<>> leaves the field out.
OwnerValues ==
    {<<>>, <<JNull>>, <<JStr(<<>>)>>, <<JStr(TextGetty)>>, <<JStr(TextBob)>>,
     <<JBool(TRUE)>>}

PayloadOf(owner, author, copyright) ==
    (IF owner = <<>> THEN <<>> ELSE <<[k |-> KeyOwner, v |-> owner[1]]>>)
    \o (IF author = <<>> THEN <<>> ELSE <<[k |-> KeyAuthor, v |-> author[1]]>>)
    \o (IF copyright = <<>> THEN <<>> ELSE <<[k |-> KeyCopyright, v |-> copyright[1]]>>)

\* Results of the detect() call inside verify_copyright.
DetectResults ==
    {Undetected("No watermark detected or decryption failed"),
     Undetected("No decryption key provided")}
    \cup {BuildResult(JObj(PayloadOf(o, a, c)), 0, "standard").res :
            o \in OwnerValues, a \in OwnerValues, c \in OwnerValues}

ExpectedOwners == {Lower(TextGetty), <<69, 84, 84>>, Lower(TextBob), <<>>}

VerifyInputs == [res : DetectResults, expected_owner : ExpectedOwners]

InitVerify ==
    /\ sc \in VerifyInputs
    /\ pc = "ready"
    /\ embedRes = EmbedFailure(0, "")
    /\ image = [h |-> 0, w |-> 0, ch |-> 3, data |-> <<>>, saved |-> FALSE]
    /\ macTable = <<>>
    /\ nflips = 0
    /\ crypto = 0
    /\ idx = 0
    /\ tried = <<>>
    /\ result = NoResult

\* verify_copyright(image, expected_owner, key)
Verification ==
    /\ pc = "ready"
    /\ result' = VerifyCopyright(sc.res, sc.expected_owner)
    /\ pc' = "returned"
    /\ UNCHANGED <<sc, embedRes, image, macTable, nflips, crypto, idx, tried>>

NextVerify == Verification

SpecVerify == InitVerify /\ [][NextVerify]_vars

\* The payload's owner, author and copyright entries, in that order, and
\* the first of them that is a non-empty text ("" when none is).
OwnerFields ==
    LET p == sc.res.payload[1].o IN
    <<DictGet(p, KeyOwner, JNull), DictGet(p, KeyAuthor, JNull),
      DictGet(p, KeyCopyright, JNull)>>

FirstNonEmptyOwner ==
    IF \E i \in 1..3 : PyTruthy(OwnerFields[i])
    THEN OwnerFields[Least({i \in 1..3 : PyTruthy(OwnerFields[i])})].s
    ELSE <<>>

\* C25: verify_copyright reports verified = true only if the watermark was
\* detected and the expected owner is, ignoring case, a substring of the
\* first non-empty of the payload's owner, author and copyright fields;
\* when nothing is detected it reports verified = false with confidence 0.
VerifiedOnlyIfOwnerMatches ==
    (pc = "returned" /\ result.kind = "value") =>
        /\ result.verified =>
              /\ sc.res.detected
              /\ Contains(Lower(sc.expected_owner), Lower(FirstNonEmptyOwner))
        /\ (sc.res.detected
              /\ Contains(Lower(sc.expected_owner), Lower(FirstNonEmptyOwner)))
              => result.verified
        /\ ~sc.res.detected => (~result.verified /\ result.confidence = 0)

\* The owner field is empty, the author field holds the match in another
\* case than the expected owner, and the copyright field names someone else.
VerifiedWitness ==
    /\ pc = "returned"
    /\ result.kind = "value"
    /\ result.verified
    /\ sc.res.detected
    /\ OwnerFields = <<JStr(<<>>), JStr(TextGetty), JStr(TextBob)>>
    /\ sc.expected_owner = <<69, 84, 84>>

\* ---------------------------------------------------------------------
\* The caller's copyright_info and the embedder's payload_dict as objects
\* ---------------------------------------------------------------------

\* A dict value that is a reference to the dict at address a of the heap.
JRef(a) == [t |-> "r", s |-> <<a>>, o |-> <<>>]

KeyTimestamp == <<116, 105, 109, 101, 115, 116, 97, 109, 112>>

\* The objects the caller holds before the call: the mapping at address 1
\* and, when it has a nested ai_compliance dict, that dict at address 2.
InfoShapes == {"str", "dict", "dict_nested_empty", "dict_nested", "dict_ai_str"}

CallerHeap(shape) ==
    CASE shape = "str" -> <<>>
      [] shape = "dict" -> <<(<<[k |-> KeyCopyright, v |-> JStr(TextYes)]>>)>>
      [] shape = "dict_nested_empty" ->
            <<(<<[k |-> KeyCopyright, v |-> JStr(TextYes)],
                 [k |-> KeyAiCompliance, v |-> JRef(2)]>>),
              <<>>>>
      [] shape = "dict_nested" ->
            <<(<<[k |-> KeyCopyright, v |-> JStr(TextYes)],
                 [k |-> KeyAiCompliance, v |-> JRef(2)]>>),
              (<<[k |-> KeyEuAiAct, v |-> JBool(FALSE)]>>)>>
      [] OTHER ->
            <<(<<[k |-> KeyCopyright, v |-> JStr(TextYes)],
                 [k |-> KeyAiCompliance, v |-> JStr(TextYes)]>>)>>

PayloadInputs ==
    [shape : InfoShapes, aiAct : BOOLEAN, timestamp : BOOLEAN, custom : BOOLEAN,
     calls : 1..MaxBatch]

\* payload_dict = copyright_info.copy(): a new dict holding the same values,
\* references included; or {"copyright": copyright_info} for a str.
CopyInfo(heap, shape) ==
    IF shape = "str"
    THEN Append(heap, <<[k |-> KeyCopyright, v |-> JStr(TextYes)]>>)
    ELSE Append(heap, heap[1])

\* Lines 226-229 on payload_dict at address p: the heap afterwards, or the
\* TypeError of an item assignment on a str.
Compliance(heap, p) ==
    LET h1 == IF HasKey(heap[p], KeyAiCompliance) THEN heap
              ELSE Append([heap EXCEPT ![p] =
                               DictSet(@, KeyAiCompliance, JRef(Len(heap) + 1))],
                          <<>>)
        target == DictGet(h1[p], KeyAiCompliance, JNull)
    IN
    IF target.t # "r" THEN [ok |-> FALSE, heap |-> h1]
    ELSE
        LET a == target.s[1]
            h2 == [h1 EXCEPT ![a] = DictSet(@, KeyEuAiAct, JBool(TRUE))]
            h3 == [h2 EXCEPT ![a] =
                      DictSet(@, KeySynthetic,
                              DictGet(h2[p], KeyAiGenerated, JBool(FALSE)))]
        IN [ok |-> TRUE, heap |-> h3]

\* Lines 206-233 of one embed() call on the heap.
PayloadOnHeap(heap, run) ==
    LET h0 == CopyInfo(heap, run.shape)
        p == Len(h0)
        h1 == IF run.timestamp
              THEN [h0 EXCEPT ![p] = DictSet(@, KeyTimestamp, JStr(Text(4)))]
              ELSE h0
        c == IF run.aiAct THEN Compliance(h1, p) ELSE [ok |-> TRUE, heap |-> h1]
        h3 == IF c.ok /\ run.custom
              THEN [c.heap EXCEPT ![p] = DictSet(@, KeyOwner, JStr(TextBob))]
              ELSE c.heap
    IN [ok |-> c.ok, heap |-> h3, payload |-> p]

InitPayload ==
    /\ sc \in PayloadInputs
    /\ pc = "ready"
    /\ embedRes = EmbedFailure(0, "")
    /\ image = [h |-> 0, w |-> 0, ch |-> 3, data |-> <<>>, saved |-> FALSE]
    /\ macTable = <<>>
    /\ nflips = 0
    /\ crypto = 0
    /\ idx = 0
    /\ tried = <<>>
    /\ result = [kind |-> "none", ok |-> FALSE, heap |-> CallerHeap(sc.shape),
                 payload |-> 0]

\* One embed(img, copyright_info) of the sc.calls calls that are given the
\* same mapping.
EmbedSharedInfo ==
    /\ pc = "ready"
    /\ idx < sc.calls
    /\ LET b == PayloadOnHeap(result.heap, sc) IN
       result' = [kind |-> "value", ok |-> b.ok, heap |-> b.heap,
                  payload |-> b.payload]
    /\ idx' = idx + 1
    /\ pc' = IF idx' = sc.calls THEN "returned" ELSE "ready"
    /\ UNCHANGED <<sc, embedRes, image, macTable, nflips, crypto, tried>>

NextPayload == EmbedSharedInfo

SpecPayload == InitPayload /\ [][NextPayload]_vars

\* C26: after embed(), and after every call of a batch that shares one
\* mapping, the caller's mapping and its nested ai_compliance dict hold the
\* keys and values they held before; what embed adds goes to its own copy.
CallerInfoUnmodified ==
    idx > 0 =>
        \A a \in DOMAIN CallerHeap(sc.shape) :
            result.heap[a] = CallerHeap(sc.shape)[a]

\* ---------------------------------------------------------------------
\* _binary_search_jpeg_quality
\* ---------------------------------------------------------------------

LowQuality == 70
HighQuality == 95
BestQuality == 85
MaxIterations == 10

\* How far outside LowQuality..HighQuality the size curves of the inputs
\* are defined.
QualityMargin == 2

\* The file size at each quality against the target: below it by more than
\* the tolerance under quality a, within the tolerance from a up to b - 1,
\* above it by more than the tolerance from b on.  Size grows with quality.
JpegInputs ==
    LET cuts == (LowQuality - QualityMargin)..(HighQuality + 1 + QualityMargin) IN
    {c \in [a : cuts, b : cuts] : c.a <= c.b}

SizeAt(curve, quality) ==
    IF quality < curve.a THEN "under"
    ELSE IF quality < curve.b THEN "within"
    ELSE "over"

InitJpeg ==
    /\ sc \in JpegInputs
    /\ pc = "loop"
    /\ embedRes = EmbedFailure(0, "")
    /\ image = [h |-> 0, w |-> 0, ch |-> 3, data |-> <<>>, saved |-> FALSE]
    /\ macTable = <<>>
    /\ nflips = 0
    /\ crypto = 0
    /\ idx = 0
    /\ tried = <<>>
    /\ result = [kind |-> "none", low_quality |-> LowQuality,
                 high_quality |-> HighQuality, best_quality |-> BestQuality,
                 quality |-> 0, temp_files |-> 0]

\* One iteration of `for _ in range(max_iterations)`: save the probe, read
\* its size, unlink it, then return or narrow the range.
JpegProbe ==
    /\ pc = "loop"
    /\ idx < MaxIterations
    /\ LET mid_quality == (result.low_quality + result.high_quality) \div 2
           written == result.temp_files + 1
           size == SizeAt(sc, mid_quality)
           unlinked == written - 1
       IN
       /\ tried' = Append(tried, mid_quality)
       /\ idx' = idx + 1
       /\ IF size = "within"
          THEN /\ result' = [result EXCEPT !.kind = "value", !.quality = mid_quality,
                                           !.temp_files = unlinked]
               /\ pc' = "returned"
          ELSE /\ result' =
                     IF size = "over"
                     THEN [result EXCEPT !.high_quality = mid_quality - 1,
                                         !.temp_files = unlinked]
                     ELSE [result EXCEPT !.low_quality = mid_quality + 1,
                                         !.best_quality = mid_quality,
                                         !.temp_files = unlinked]
               /\ pc' = pc
    /\ UNCHANGED <<sc, embedRes, image, macTable, nflips, crypto>>

\* return best_quality
JpegReturn ==
    /\ pc = "loop"
    /\ idx = MaxIterations
    /\ result' = [result EXCEPT !.kind = "value", !.quality = result.best_quality]
    /\ pc' = "returned"
    /\ UNCHANGED <<sc, embedRes, image, macTable, nflips, crypto, idx, tried>>

NextJpeg ==
    \/ JpegProbe
    \/ JpegReturn

SpecJpeg == InitJpeg /\ [][NextJpeg]_vars

\* C27: the search makes at most max_iterations probes, every quality it
\* probes and the quality it returns lie in 70..95, and no probe file is
\* left after a probe.
JpegSearchInRange ==
    /\ Len(tried) <= MaxIterations
    /\ \A i \in DOMAIN tried : tried[i] \in LowQuality..HighQuality
    /\ pc = "returned" => result.quality \in LowQuality..HighQuality
    /\ result.temp_files = 0

\* ---------------------------------------------------------------------
\* TruthMarkClient: encode and decode over HTTP
\* ---------------------------------------------------------------------

\* The call, whether image_path exists, whether output_path is given, and
\* what the server does with the POST and with the GET of the download.
ClientInputs ==
    [api : {"encode", "decode"}, exists : BOOLEAN, output_path : BOOLEAN,
     post : {"ok_url", "ok_no_url", "http_error", "conn_error"},
     download : {"ok", "http_error", "write_error"}]

ClientRaised(msg) == [kind |-> "raised", error |-> msg, output_path |-> <<>>]

ClientValue(path) == [kind |-> "value", error |-> "", output_path |-> path]

\* _download_image: the GET, and the file written unless the request or the
\* write fails; every exception ends in a printed warning.
DownloadImage(outcome) == [requests |-> <<"GET">>, written |-> outcome = "ok"]

\* encode(): the result or exception, the requests sent, and whether the
\* file at output_path was written.
EncodeCall(run) ==
    IF ~run.exists
    THEN [res |-> ClientRaised("ValueError: Image not found"), requests |-> <<>>,
          written |-> FALSE]
    ELSE IF run.post \in {"http_error", "conn_error"}
    THEN [res |-> ClientRaised("API Request Failed"), requests |-> <<"POST">>,
          written |-> FALSE]
    ELSE IF run.output_path /\ run.post = "ok_url"
    THEN LET d == DownloadImage(run.download) IN
         [res |-> ClientValue(<<"output_path">>),
          requests |-> <<"POST">> \o d.requests,
          written |-> d.written]
    ELSE [res |-> ClientValue(<<>>), requests |-> <<"POST">>, written |-> FALSE]

\* decode()
DecodeCall(run) ==
    IF ~run.exists
    THEN [res |-> ClientRaised("ValueError: Image not found"), requests |-> <<>>,
          written |-> FALSE]
    ELSE IF run.post \in {"http_error", "conn_error"}
    THEN [res |-> ClientRaised("API Request Failed"), requests |-> <<"POST">>,
          written |-> FALSE]
    ELSE [res |-> ClientValue(<<>>), requests |-> <<"POST">>, written |-> FALSE]

InitClient ==
    /\ sc \in ClientInputs
    /\ pc = "ready"
    /\ embedRes = EmbedFailure(0, "")
    /\ image = [h |-> 0, w |-> 0, ch |-> 3, data |-> <<>>, saved |-> FALSE]
    /\ macTable = <<>>
    /\ nflips = 0
    /\ crypto = 0
    /\ idx = 0
    /\ tried = <<>>
    /\ result = [kind |-> "none", error |-> "", output_path |-> <<>>]

\* client.encode(image_path, message, output_path)
Encode ==
    /\ pc = "ready"
    /\ sc.api = "encode"
    /\ LET c == EncodeCall(sc) IN
       /\ result' = c.res
       /\ tried' = c.requests
       /\ image' = [image EXCEPT !.saved = c.written]
    /\ pc' = "returned"
    /\ UNCHANGED <<sc, embedRes, macTable, nflips, crypto, idx>>

\* client.decode(image_path)
Decode ==
    /\ pc = "ready"
    /\ sc.api = "decode"
    /\ LET c == DecodeCall(sc) IN
       /\ result' = c.res
       /\ tried' = c.requests
       /\ image' = [image EXCEPT !.saved = c.written]
    /\ pc' = "returned"
    /\ UNCHANGED <<sc, embedRes, macTable, nflips, crypto, idx>>

NextClient ==
    \/ Encode
    \/ Decode

SpecClient == InitClient /\ [][NextClient]_vars

\* C30: encode sends no HTTP request when the input file does not exist,
\* raising ValueError first, and the result it returns holds output_path
\* only if the watermarked image was downloaded and written to that path.
EncodeOutputPathMeansWritten ==
    (pc = "returned" /\ sc.api = "encode") =>
        /\ ~sc.exists =>
              /\ tried = <<>>
              /\ result = ClientRaised("ValueError: Image not found")
        /\ (result.kind = "value" /\ result.output_path # <<>>) => image.saved

=============================================================================
